---- MODULE Spec2Model ----
(***************************************************************************)
(* A model of src/MeshMassProperties.cpp: volume, center of mass and       *)
(* inertia tensor of a closed triangle mesh.                                *)
(*                                                                         *)
(* Arithmetic.  A btScalar is modelled as an exact rational <<n, d>> in    *)
(* lowest terms with d > 0, so every finite sum, product and quotient is   *)
(* the real-number result: rounding of the machine format is NOT           *)
(* modelled (the width of btScalar is fixed outside this file).  The one   *)
(* place where real arithmetic has no value, division by zero, follows     *)
(* IEEE 754: <<1,0>> is +infinity, <<-1,0>> is -infinity and <<0,0>> is    *)
(* NaN, with the IEEE rules for arithmetic and comparison on them.         *)
(***************************************************************************)
EXTENDS Integers, Sequences, FiniteSets, TLC

(***************************************************************************)
(* btScalar                                                                *)
(***************************************************************************)
Abs(n) == IF n < 0 THEN -n ELSE n

Sign(n) == IF n < 0 THEN -1 ELSE IF n > 0 THEN 1 ELSE 0

RECURSIVE GCD(_, _)
GCD(a, b) == IF b = 0 THEN a ELSE GCD(b, a % b)

\* the rational n/d (d /= 0) in lowest terms with a positive denominator
R(n, d) ==
    LET g == GCD(Abs(n), Abs(d))
        s == Sign(d)
    IN  <<(s * n) \div g, (s * d) \div g>>

Num(a) == a[1]
Den(a) == a[2]

\* an integer as a btScalar
I(n) == <<n, 1>>

NaN == <<0, 0>>
IsFinite(a) == Den(a) /= 0
IsNaN(a) == a = NaN

\* operator + of btScalar
RAdd(a, b) ==
    IF IsFinite(a) /\ IsFinite(b)
    THEN LET g == GCD(Den(a), Den(b))
         IN  R(Num(a) * (Den(b) \div g) + Num(b) * (Den(a) \div g),
               (Den(a) \div g) * Den(b))
    ELSE IF ~IsFinite(a) /\ ~IsFinite(b)
         THEN (IF a = b THEN a ELSE NaN)
         ELSE IF IsFinite(a) THEN b ELSE a

\* unary operator -
RNeg(a) == <<-Num(a), Den(a)>>

\* operator - of btScalar
RSub(a, b) == RAdd(a, RNeg(b))

\* operator * of btScalar
RMul(a, b) ==
    IF IsFinite(a) /\ IsFinite(b)
    THEN LET g1 == GCD(Abs(Num(a)), Den(b))
             g2 == GCD(Abs(Num(b)), Den(a))
         IN  <<(Num(a) \div g1) * (Num(b) \div g2),
               (Den(a) \div g2) * (Den(b) \div g1)>>
    ELSE <<Sign(Num(a)) * Sign(Num(b)), 0>>

\* operator / of btScalar; x / 0 is +-infinity, 0 / 0 is NaN
RDiv(a, b) ==
    IF IsFinite(a) /\ IsFinite(b)
    THEN (IF Num(b) = 0 THEN <<Sign(Num(a)), 0>>
          ELSE RMul(a, R(Den(b), Num(b))))
    ELSE IF IsFinite(a) THEN (IF IsNaN(b) THEN NaN ELSE I(0))
    ELSE IF IsFinite(b) /\ ~IsNaN(a)
         THEN <<Num(a) * (IF Num(b) < 0 THEN -1 ELSE 1), 0>>
         ELSE NaN

\* operator > of btScalar; false when either side is NaN
RGt(a, b) ==
    /\ ~IsNaN(a)
    /\ ~IsNaN(b)
    /\ IF IsFinite(a) /\ IsFinite(b) THEN Num(a) * Den(b) > Num(b) * Den(a)
       ELSE IF IsFinite(a) THEN Num(b) < 0
       ELSE IF IsFinite(b) THEN Num(a) > 0
       ELSE Num(a) > Num(b)

\* operator < of btScalar
RLt(a, b) == RGt(b, a)

a \oplus b == RAdd(a, b)
a \ominus b == RSub(a, b)
a \otimes b == RMul(a, b)

(***************************************************************************)
(* btVector3 and btMatrix3x3, indexed 0..2 as in the source                *)
(***************************************************************************)
Axes == 0 .. 2

Vec(x, y, z) == [i \in Axes |-> IF i = 0 THEN x ELSE IF i = 1 THEN y ELSE z]

\* a vector of integer coordinates
IVec(x, y, z) == Vec(I(x), I(y), I(z))

\* btVector3::setZero
ZeroVec == IVec(0, 0, 0)

VAdd(u, v) == [i \in Axes |-> RAdd(u[i], v[i])]

VSub(u, v) == [i \in Axes |-> RSub(u[i], v[i])]

\* scalar * vector
VScale(s, v) == [i \in Axes |-> RMul(s, v[i])]

\* vector / scalar
VDiv(v, s) == [i \in Axes |-> RDiv(v[i], s)]

\* btVector3::dot
Dot(u, v) == RAdd(RAdd(RMul(u[0], v[0]), RMul(u[1], v[1])), RMul(u[2], v[2]))

\* btVector3::length2
Length2(v) == Dot(v, v)

\* btVector3::cross
Cross(u, v) ==
    Vec(RSub(RMul(u[1], v[2]), RMul(u[2], v[1])),
        RSub(RMul(u[2], v[0]), RMul(u[0], v[2])),
        RSub(RMul(u[0], v[1]), RMul(u[1], v[0])))

\* three rows set to zero (btVector3::setZero on each row)
ZeroMat == [i \in Axes |-> ZeroVec]

\* btMatrix3x3::setIdentity
IdentityMat == [i \in Axes |-> [j \in Axes |-> IF i = j THEN I(1) ELSE I(0)]]

\* btMatrix3x3::operator+=
MAdd(a, b) == [i \in Axes |-> VAdd(a[i], b[i])]

(***************************************************************************)
(* computeBoxInertia                                                       *)
(***************************************************************************)
computeBoxInertia(mass, diagonal) ==
    LET m == RDiv(mass, I(12))
        x == m \otimes diagonal[0] \otimes diagonal[0]
        y == m \otimes diagonal[1] \otimes diagonal[1]
        z == m \otimes diagonal[2] \otimes diagonal[2]
    IN  [IdentityMat EXCEPT ![0][0] = y \oplus z,
                            ![1][1] = z \oplus x,
                            ![2][2] = x \oplus y]

(***************************************************************************)
(* computeTetrahedronInertia                                               *)
(***************************************************************************)
\* TetraDiagonal with the off-diagonal's factor 0.05 in place of 0.1
TetraDiagonalTwentieth(mass, p, j, k) ==
    mass \otimes R(1, 20) \otimes
        ( p[0][j] \otimes (p[0][j] \oplus p[1][j] \oplus p[2][j] \oplus p[3][j])
        \oplus p[1][j] \otimes (p[1][j] \oplus p[2][j] \oplus p[3][j])
        \oplus p[2][j] \otimes (p[2][j] \oplus p[3][j])
        \oplus p[3][j] \otimes p[3][j]
        \oplus p[0][k] \otimes (p[0][k] \oplus p[1][k] \oplus p[2][k] \oplus p[3][k])
        \oplus p[1][k] \otimes (p[1][k] \oplus p[2][k] \oplus p[3][k])
        \oplus p[2][k] \otimes (p[2][k] \oplus p[3][k])
        \oplus p[3][k] \otimes p[3][k] )

\* the diagonal entry inertia[i][i], from the coordinates j and k
TetraDiagonal(mass, p, j, k) ==
    mass \otimes R(1, 10) \otimes
        ( p[0][j] \otimes (p[0][j] \oplus p[1][j] \oplus p[2][j] \oplus p[3][j])
        \oplus p[1][j] \otimes (p[1][j] \oplus p[2][j] \oplus p[3][j])
        \oplus p[2][j] \otimes (p[2][j] \oplus p[3][j])
        \oplus p[3][j] \otimes p[3][j]
        \oplus p[0][k] \otimes (p[0][k] \oplus p[1][k] \oplus p[2][k] \oplus p[3][k])
        \oplus p[1][k] \otimes (p[1][k] \oplus p[2][k] \oplus p[3][k])
        \oplus p[2][k] \otimes (p[2][k] \oplus p[3][k])
        \oplus p[3][k] \otimes p[3][k] )

\* the off-diagonal entries inertia[j][k] and inertia[k][j]
TetraOffDiagonal(mass, p, j, k) ==
    RNeg(mass) \otimes R(1, 20) \otimes
        ( I(2) \otimes ( p[0][j] \otimes p[0][k] \oplus p[1][j] \otimes p[1][k]
                      \oplus p[2][j] \otimes p[2][k] \oplus p[3][j] \otimes p[3][k] )
        \oplus p[0][j] \otimes (p[1][k] \oplus p[2][k] \oplus p[3][k])
        \oplus p[1][j] \otimes (p[0][k] \oplus p[2][k] \oplus p[3][k])
        \oplus p[2][j] \otimes (p[0][k] \oplus p[1][k] \oplus p[3][k])
        \oplus p[3][j] \otimes (p[0][k] \oplus p[1][k] \oplus p[2][k]) )

\* TetraInertiaPass without the mirrored assignment inertia[k][j] =
TetraInertiaPassOneSided(mass, p, inertia, i) ==
    LET j == (i + 1) % 3
        k == (j + 1) % 3
    IN  [inertia EXCEPT ![i][i] = TetraDiagonal(mass, p, j, k),
                        ![j][k] = TetraOffDiagonal(mass, p, j, k)]

\* one pass of the loop over i
TetraInertiaPass(mass, p, inertia, i) ==
    LET j == (i + 1) % 3
        k == (j + 1) % 3
        offDiagonal == TetraOffDiagonal(mass, p, j, k)
    IN  [inertia EXCEPT ![i][i] = TetraDiagonal(mass, p, j, k),
                        ![j][k] = offDiagonal,
                        ![k][j] = offDiagonal]

\* inertia is the in-out argument: the tensor as the call leaves it
computeTetrahedronInertia(mass, points, inertia) ==
    TetraInertiaPass(mass, points,
        TetraInertiaPass(mass, points,
            TetraInertiaPass(mass, points, inertia, 0), 1), 2)

(***************************************************************************)
(* computePointInertia                                                     *)
(***************************************************************************)
RECURSIVE PointInertiaInner(_, _, _, _, _)
PointInertiaInner(point, mass, inertia, i, j) ==
    IF j < 3
    THEN LET offDiagonal == RNeg(mass) \otimes point[i] \otimes point[j]
         IN  PointInertiaInner(point, mass,
                 [inertia EXCEPT ![i][j] = offDiagonal, ![j][i] = offDiagonal],
                 i, j + 1)
    ELSE inertia

RECURSIVE PointInertiaOuter(_, _, _, _, _)
PointInertiaOuter(point, mass, distanceSquared, inertia, i) ==
    IF i < 3
    THEN LET pointi == point[i]
             diag == [inertia EXCEPT ![i][i] =
                         mass \otimes (distanceSquared \ominus (pointi \otimes pointi))]
         IN  PointInertiaOuter(point, mass, distanceSquared,
                 PointInertiaInner(point, mass, diag, i, i + 1), i + 1)
    ELSE inertia

\* inertia is the in-out argument: left as it was when the point is the origin
computePointInertia(point, mass, inertia) ==
    LET distanceSquared == Length2(point)
    IN  IF RGt(distanceSquared, I(0))
        THEN PointInertiaOuter(point, mass, distanceSquared, inertia, 0)
        ELSE inertia

(***************************************************************************)
(* computeTetrahedronVolume                                                *)
(***************************************************************************)
\* computeTetrahedronVolume returning the magnitude, the sign dropped
computeTetrahedronVolumeUnsigned(points) ==
    LET signed == RDiv(Dot(Cross(VSub(points[2], points[1]), VSub(points[3], points[2])),
                           VSub(points[3], points[0])),
                       I(6))
    IN  IF RLt(signed, I(0)) THEN RNeg(signed) ELSE signed

computeTetrahedronVolume(points) ==
    RDiv(Dot(Cross(VSub(points[2], points[1]), VSub(points[3], points[2])),
             VSub(points[3], points[0])),
         I(6))

(***************************************************************************)
(* applyParallelAxisTheorem, applyInverseParallelAxisTheorem               *)
(***************************************************************************)
RECURSIVE ParallelAxisInner(_, _, _, _, _)
ParallelAxisInner(inertia, shift, mass, i, j) ==
    IF j < 3
    THEN LET offDiagonal == mass \otimes shift[i] \otimes shift[j]
         IN  ParallelAxisInner(
                 [inertia EXCEPT ![i][j] = @ \ominus offDiagonal,
                                 ![j][i] = @ \ominus offDiagonal],
                 shift, mass, i, j + 1)
    ELSE inertia

RECURSIVE ParallelAxisOuter(_, _, _, _, _)
ParallelAxisOuter(inertia, shift, mass, distanceSquared, i) ==
    IF i < 3
    THEN LET shifti == shift[i]
             diag == [inertia EXCEPT ![i][i] =
                         @ \oplus mass \otimes (distanceSquared \ominus (shifti \otimes shifti))]
         IN  ParallelAxisOuter(ParallelAxisInner(diag, shift, mass, i, i + 1),
                               shift, mass, distanceSquared, i + 1)
    ELSE inertia

applyParallelAxisTheorem(inertia, shift, mass) ==
    LET distanceSquared == Length2(shift)
    IN  IF RGt(distanceSquared, I(0))
        THEN ParallelAxisOuter(inertia, shift, mass, distanceSquared, 0)
        ELSE inertia

\* InverseParallelAxisInner with the forward shift's -= kept
InverseInnerSameSign(inertia, shift, mass, i, j) ==
    ParallelAxisInner(inertia, shift, mass, i, j)

RECURSIVE InverseParallelAxisInner(_, _, _, _, _)
InverseParallelAxisInner(inertia, shift, mass, i, j) ==
    IF j < 3
    THEN LET offDiagonal == mass \otimes shift[i] \otimes shift[j]
         IN  InverseParallelAxisInner(
                 [inertia EXCEPT ![i][j] = @ \oplus offDiagonal,
                                 ![j][i] = @ \oplus offDiagonal],
                 shift, mass, i, j + 1)
    ELSE inertia

RECURSIVE InverseParallelAxisOuter(_, _, _, _, _)
InverseParallelAxisOuter(inertia, shift, mass, distanceSquared, i) ==
    IF i < 3
    THEN LET shifti == shift[i]
             diag == [inertia EXCEPT ![i][i] =
                         @ \ominus mass \otimes (distanceSquared \ominus (shifti \otimes shifti))]
         IN  InverseParallelAxisOuter(InverseParallelAxisInner(diag, shift, mass, i, i + 1),
                                      shift, mass, distanceSquared, i + 1)
    ELSE inertia

\* the forward shift called where the inverse is meant
applyForwardInstead(inertia, shift, mass) ==
    applyParallelAxisTheorem(inertia, shift, mass)

applyInverseParallelAxisTheorem(inertia, shift, mass) ==
    LET distanceSquared == Length2(shift)
    IN  IF RGt(distanceSquared, I(0))
        THEN InverseParallelAxisOuter(inertia, shift, mass, distanceSquared, 0)
        ELSE inertia

(***************************************************************************)
(* Input meshes.  A mesh is a vertex buffer (VectorOfPoints) and a flat    *)
(* triangle index list (VectorOfIndices); both are 0-based in the source   *)
(* and held here as sequences, so index n is element n + 1.                *)
(***************************************************************************)
\* largest coordinate of a translation of the mesh
MaxShift == 1

\* largest rotation of the triangle order
MaxRot == 2

\* the 8 corners of the axis-aligned box [boxMin, boxMin + extent]
BoxPoints(boxMin, extent) ==
    [n \in 1 .. 8 |->
        Vec(boxMin[0] \oplus I((n - 1) \div 4) \otimes extent[0],
            boxMin[1] \oplus I(((n - 1) \div 2) % 2) \otimes extent[1],
            boxMin[2] \oplus I((n - 1) % 2) \otimes extent[2])]

\* its 12 triangles, counter-clockwise seen from outside
BoxTriangles ==
    << 0, 1, 3,   0, 3, 2,   4, 7, 5,   4, 6, 7,
       0, 4, 5,   0, 5, 1,   2, 7, 6,   2, 3, 7,
       0, 2, 6,   0, 6, 4,   1, 7, 3,   1, 5, 7 >>

Box(boxMin, extent) ==
    [shape |-> "box", closed |-> TRUE, boxMin |-> boxMin, extent |-> extent,
     points |-> BoxPoints(boxMin, extent), triangleIndices |-> BoxTriangles]

Mesh(shape, closed, pts, tris) ==
    [shape |-> shape, closed |-> closed, boxMin |-> ZeroVec, extent |-> ZeroVec,
     points |-> pts, triangleIndices |-> tris]

\* the four faces of a positively oriented tetrahedron (the source's own table,
\* computeTetrahedronInertiaByBruteForce)
TetrahedronTriangles == << 0, 2, 1,   0, 3, 2,   0, 1, 3,   1, 2, 3 >>

TetrahedronPoints == << IVec(1, 1, 1), IVec(3, 1, 1), IVec(1, 2, 1), IVec(1, 1, 4) >>

\* a solid that is not convex: the tetrahedron A B C T with the tetrahedron
\* A B C D cut out of its base (D lies inside A B C T)
DentedPoints ==
    << IVec(0, 0, 0), IVec(4, 0, 0), IVec(0, 4, 0), IVec(1, 1, 4), IVec(1, 1, 1) >>

DentedTriangles ==
    << 0, 3, 2,   0, 1, 3,   1, 2, 3,   0, 2, 4,   0, 4, 1,   1, 4, 2 >>

\* two triangles whose signed volumes cancel and whose centers differ
CancellingPoints ==
    << IVec(1, 0, 0), IVec(0, 1, 0), IVec(0, 0, 1),
       IVec(0, 0, 1), IVec(1, 1, 0), IVec(2, 1, 1) >>

Meshes ==
    { Box(Vec(R(-1, 2), R(-1, 2), R(-1, 2)), IVec(1, 1, 1)),
      Box(IVec(0, 0, 0), IVec(1, 2, 3)),
      Box(IVec(1, -1, 2), IVec(2, 1, 1)),
      Mesh("tetrahedron", TRUE, TetrahedronPoints, TetrahedronTriangles),
      Mesh("dented", TRUE, DentedPoints, DentedTriangles),
      \* no triangle at all
      Mesh("empty", FALSE, TetrahedronPoints, << >>),
      \* a surface that encloses nothing
      Mesh("open", FALSE, TetrahedronPoints, << 0, 2, 1,   0, 3, 2 >>),
      \* signed volumes that cancel
      Mesh("twice", FALSE, TetrahedronPoints, << 1, 2, 3,   1, 3, 2 >>),
      Mesh("cancelling", FALSE, CancellingPoints, << 0, 1, 2,   3, 4, 5 >>),
      \* index lists whose length is no multiple of 3
      Mesh("tetrahedron+1", TRUE, TetrahedronPoints, TetrahedronTriangles \o << 0 >>),
      Mesh("tetrahedron+2", TRUE, TetrahedronPoints, TetrahedronTriangles \o << 0, 1 >>) }

\* the translations of a mesh
Shifts ==
    { IVec(x, y, z) : x \in -MaxShift .. MaxShift, y \in -MaxShift .. MaxShift,
                      z \in -MaxShift .. MaxShift }

TranslatePoints(pts, d) == [n \in 1 .. Len(pts) |-> VAdd(pts[n], d)]

\* the index triples in another order: rotated left by rot triples, then
\* reversed when rev; each triple stays intact and in its own vertex order
PermuteTriangles(tris, rot, rev) ==
    LET numTriples == Len(tris) \div 3
        from(t) == LET r == (t + rot) % numTriples
                   IN  IF rev THEN numTriples - 1 - r ELSE r
    IN  [n \in 1 .. Len(tris) |->
            IF (n - 1) \div 3 < numTriples
            THEN tris[3 * from((n - 1) \div 3) + ((n - 1) % 3) + 1]
            ELSE tris[n]]

\* what the caller does to the mesh between its two calls
Transforms ==
    [kind : {"translate"}, d : Shifts, rot : {0}, rev : {FALSE}]
    \cup [kind : {"permute"}, d : {ZeroVec}, rot : 1 .. MaxRot, rev : BOOLEAN]

\* a default-constructed btMatrix3x3 or btVector3 holds whatever the memory held
GarbageMat ==
    [i \in Axes |-> [j \in Axes |-> I(3 * i + j + 1)]]

IndeterminateMats == {ZeroMat, GarbageMat}

IndeterminateVec == IVec(7, 8, 9)

(***************************************************************************)
(* MeshMassProperties::computeMassProperties, called twice by one caller:  *)
(* on a mesh, then on the same mesh translated or with its triangles in    *)
(* another order.                                                          *)
(***************************************************************************)
VARIABLES
    mesh,             \* the caller's mesh
    xform,            \* what the caller does to it before the second call
    run,              \* 1: the first call, 2: the second
    first,            \* the members the first call left
    points,           \* argument of the call in progress
    triangleIndices,  \* argument of the call in progress
    m_volume, m_centerOfMass, m_inertia,
    weightedCenter, tetraInertia, tetraPoints, center, volume,
    i,                \* the loop counter
    pc                \* "loop", "inertia", "shift", "tally", "done"

meshVars ==
    << mesh, xform, run, first, points, triangleIndices, m_volume, m_centerOfMass,
       m_inertia, weightedCenter, tetraInertia, tetraPoints, center, volume, i, pc >>

\* a caller of applyParallelAxisTheorem and applyInverseParallelAxisTheorem
VARIABLES
    patInertia,       \* the tensor both calls work on
    patShift,         \* the offset given to both
    patMass,          \* the mass given to both
    patBefore,        \* the tensor before the first call
    patPc             \* "start", "shifted", "restored"

patVars == << patInertia, patShift, patMass, patBefore, patPc >>

\* a caller of computeTetrahedronVolume
VARIABLES
    volPoints,        \* the four points p0 .. p3
    volOrder,         \* the order in which p1, p2, p3 were last passed
    volFirst,         \* the volume of (p0, p1, p2, p3)
    volSecond,        \* the volume of the points in the order volOrder
    volPc             \* "start", "first", "second"

volVars == << volPoints, volOrder, volFirst, volSecond, volPc >>

\* computeTetrahedronInertiaByBruteForce
VARIABLES
    bfPoints,         \* the argument points
    bfInertia,        \* the argument inertia
    deltaInertia,
    x, y, z,          \* the three loop variables
    p, pointInside,   \* the sample point and whether it is inside
    bfPc              \* "x", "y", "z": the loop whose test is next; "done"

bfVars == << bfPoints, bfInertia, deltaInertia, x, y, z, p, pointInside, bfPc >>

vars == << meshVars, patVars, volVars, bfVars >>

numPoints == Len(points)

numTriangles == Len(triangleIndices) \div 3

\* the three asserts at the top of the loop body; a failing assert aborts the
\* call, and every mesh of Meshes keeps its indices in range
IndicesInRange(t) ==
    /\ triangleIndices[t + 1] < numPoints
    /\ triangleIndices[t + 2] < numPoints
    /\ triangleIndices[t + 3] < numPoints

\* extract raw vertices: the origin and the triangle's three points
RawTetraPoints(pts, tris, t) ==
    [k \in 0 .. 3 |-> IF k = 0 THEN ZeroVec ELSE pts[tris[t + k] + 1]]

\* TetraCenter as the average of the three triangle vertices
TetraCenterOfThree(tp) == VScale(R(1, 3), VAdd(VAdd(tp[1], tp[2]), tp[3]))

\* compute center
TetraCenter(tp) == VScale(R(1, 4), VAdd(VAdd(tp[1], tp[2]), tp[3]))

\* shift vertices so that center of mass is at origin
ShiftedTetraPoints(tp, c) == [k \in 0 .. 3 |-> VSub(tp[k], c)]

\* initialize the totals, as the call starts
StartCall(pts, tris) ==
    /\ points' = pts
    /\ triangleIndices' = tris
    /\ m_volume' = I(0)
    /\ weightedCenter' = ZeroVec
    /\ m_inertia' = ZeroMat
    /\ i' = 0
    /\ pc' = "loop"

MeshInit ==
    /\ mesh \in Meshes
    /\ xform \in Transforms
    /\ run = 1
    /\ first = [volume |-> I(0), centerOfMass |-> ZeroVec, inertia |-> ZeroMat]
    /\ points = mesh.points
    /\ triangleIndices = mesh.triangleIndices
    /\ m_volume = I(0)
    /\ weightedCenter = ZeroVec
    /\ m_inertia = ZeroMat
    /\ m_centerOfMass = IndeterminateVec
    /\ tetraInertia \in IndeterminateMats
    /\ tetraPoints = [k \in 0 .. 3 |-> IndeterminateVec]
    /\ center = IndeterminateVec
    /\ volume = I(0)
    /\ i = 0
    /\ pc = "loop"

\* the loop body down to the shift of the four points
ExtractTriangle ==
    /\ pc = "loop"
    /\ i < numTriangles
    /\ LET t == 3 * i
           raw == RawTetraPoints(points, triangleIndices, t)
       IN  /\ IndicesInRange(t)
           /\ volume' = computeTetrahedronVolume(raw)
           /\ center' = TetraCenter(raw)
           /\ tetraPoints' = ShiftedTetraPoints(raw, TetraCenter(raw))
    /\ pc' = "inertia"
    /\ UNCHANGED << mesh, xform, run, first, points, triangleIndices, m_volume,
                    m_centerOfMass, m_inertia, weightedCenter, tetraInertia, i >>
    /\ UNCHANGED << patVars, volVars, bfVars >>

\* computeTetrahedronInertia(volume, tetraPoints, tetraInertia)
TetraInertia ==
    /\ pc = "inertia"
    /\ tetraInertia' = computeTetrahedronInertia(volume, tetraPoints, tetraInertia)
    /\ pc' = "shift"
    /\ UNCHANGED << mesh, xform, run, first, points, triangleIndices, m_volume,
                    m_centerOfMass, m_inertia, weightedCenter, tetraPoints, center,
                    volume, i >>
    /\ UNCHANGED << patVars, volVars, bfVars >>

\* applyParallelAxisTheorem(tetraInertia, center, volume)
ShiftToOrigin ==
    /\ pc = "shift"
    /\ tetraInertia' = applyParallelAxisTheorem(tetraInertia, center, volume)
    /\ pc' = "tally"
    /\ UNCHANGED << mesh, xform, run, first, points, triangleIndices, m_volume,
                    m_centerOfMass, m_inertia, weightedCenter, tetraPoints, center,
                    volume, i >>
    /\ UNCHANGED << patVars, volVars, bfVars >>

\* Tally with weightedCenter = in place of weightedCenter +=
TallyOverwritesCenter ==
    /\ pc = "tally"
    /\ weightedCenter' = VScale(volume, center)
    /\ m_volume' = m_volume \oplus volume
    /\ m_inertia' = MAdd(m_inertia, tetraInertia)
    /\ i' = i + 1
    /\ pc' = "loop"
    /\ UNCHANGED << mesh, xform, run, first, points, triangleIndices, m_centerOfMass,
                    tetraInertia, tetraPoints, center, volume >>
    /\ UNCHANGED << patVars, volVars, bfVars >>

\* tally results, and the loop's ++i
Tally ==
    /\ pc = "tally"
    /\ weightedCenter' = VAdd(weightedCenter, VScale(volume, center))
    /\ m_volume' = m_volume \oplus volume
    /\ m_inertia' = MAdd(m_inertia, tetraInertia)
    /\ i' = i + 1
    /\ pc' = "loop"
    /\ UNCHANGED << mesh, xform, run, first, points, triangleIndices, m_centerOfMass,
                    tetraInertia, tetraPoints, center, volume >>
    /\ UNCHANGED << patVars, volVars, bfVars >>

\* after the loop: the center of mass, and the inertia moved to it
Finish ==
    /\ pc = "loop"
    /\ ~(i < numTriangles)
    /\ m_centerOfMass' = VDiv(weightedCenter, m_volume)
    /\ m_inertia' = applyInverseParallelAxisTheorem(m_inertia,
                        VDiv(weightedCenter, m_volume), m_volume)
    /\ pc' = "done"
    /\ UNCHANGED << mesh, xform, run, first, points, triangleIndices, m_volume,
                    weightedCenter, tetraInertia, tetraPoints, center, volume, i >>
    /\ UNCHANGED << patVars, volVars, bfVars >>

\* the caller keeps the first result and constructs a second MeshMassProperties
SecondCall ==
    /\ pc = "done"
    /\ run = 1
    /\ run' = 2
    /\ first' = [volume |-> m_volume, centerOfMass |-> m_centerOfMass,
                 inertia |-> m_inertia]
    /\ StartCall(TranslatePoints(mesh.points, xform.d),
                 IF xform.kind = "permute"
                 THEN PermuteTriangles(mesh.triangleIndices, xform.rot, xform.rev)
                 ELSE mesh.triangleIndices)
    /\ UNCHANGED << mesh, xform, m_centerOfMass, tetraInertia, tetraPoints, center,
                    volume >>
    /\ UNCHANGED << patVars, volVars, bfVars >>

MeshNext ==
    \/ ExtractTriangle
    \/ TetraInertia
    \/ ShiftToOrigin
    \/ Tally
    \/ Finish
    \/ SecondCall

MeshIdle ==
    /\ mesh = "none" /\ xform = "none" /\ run = 0 /\ first = "none"
    /\ points = << >> /\ triangleIndices = << >>
    /\ m_volume = I(0) /\ m_centerOfMass = ZeroVec /\ m_inertia = ZeroMat
    /\ weightedCenter = ZeroVec /\ tetraInertia = ZeroMat
    /\ tetraPoints = << >> /\ center = ZeroVec /\ volume = I(0)
    /\ i = 0 /\ pc = "idle"

(***************************************************************************)
(* A caller that applies applyParallelAxisTheorem and then                 *)
(* applyInverseParallelAxisTheorem to one tensor, with one offset and mass *)
(***************************************************************************)
\* largest numerator of a mass
MaxMass == 2

\* positive masses: whole ones and sixths (a tetrahedron's volume is det / 6)
PatMasses == { I(n) : n \in 1 .. MaxMass } \cup { R(n, 6) : n \in 1 .. MaxMass }

\* tensors: zero, one that is not symmetric, one symmetric with fractions
PatTensors ==
    { ZeroMat, GarbageMat,
      [j \in Axes |-> [k \in Axes |-> IF j = k THEN R(2 + j, 3) ELSE R(-(j + k), 20)]] }

PatIdle ==
    /\ patInertia = ZeroMat /\ patShift = ZeroVec /\ patMass = I(0)
    /\ patBefore = ZeroMat /\ patPc = "idle"

PatInit ==
    /\ patInertia \in PatTensors
    /\ patShift \in Shifts
    /\ patMass \in PatMasses
    /\ patBefore = patInertia
    /\ patPc = "start"

\* applyParallelAxisTheorem(inertia, shift, mass)
ApplyShift ==
    /\ patPc = "start"
    /\ patInertia' = applyParallelAxisTheorem(patInertia, patShift, patMass)
    /\ patPc' = "shifted"
    /\ UNCHANGED << patShift, patMass, patBefore >>
    /\ UNCHANGED << meshVars, volVars, bfVars >>

\* applyInverseParallelAxisTheorem(inertia, shift, mass)
ApplyInverseShift ==
    /\ patPc = "shifted"
    /\ patInertia' = applyInverseParallelAxisTheorem(patInertia, patShift, patMass)
    /\ patPc' = "restored"
    /\ UNCHANGED << patShift, patMass, patBefore >>
    /\ UNCHANGED << meshVars, volVars, bfVars >>

PatNext ==
    \/ ApplyShift
    \/ ApplyInverseShift

(***************************************************************************)
(* A caller that measures four points with computeTetrahedronVolume, then  *)
(* the same points with p1, p2, p3 in another order                        *)
(***************************************************************************)
\* largest coordinate of p1 and p2
MaxCoord == 1

VolGrid ==
    { IVec(a, b, c) : a \in 0 .. MaxCoord, b \in 0 .. MaxCoord, c \in 0 .. MaxCoord }

\* one pair among p1, p2, p3 swapped
Swaps == { << 2, 1, 3 >>, << 1, 3, 2 >>, << 3, 2, 1 >> }

\* (p2, p3, p1) and (p3, p1, p2)
Rotations == { << 2, 3, 1 >>, << 3, 1, 2 >> }

\* p0 kept, p1 p2 p3 in the order ord
Reordered(pts, ord) == [k \in 0 .. 3 |-> IF k = 0 THEN pts[0] ELSE pts[ord[k]]]

VolIdle ==
    /\ volPoints = << >> /\ volOrder = << >> /\ volFirst = I(0)
    /\ volSecond = I(0) /\ volPc = "idle"

VolInit ==
    /\ volPoints \in
          { [k \in 0 .. 3 |-> IF k = 0 THEN q0 ELSE IF k = 1 THEN q1
                              ELSE IF k = 2 THEN q2 ELSE q3] :
              q0 \in { ZeroVec, IVec(1, -2, 3) },
              q1 \in VolGrid, q2 \in VolGrid,
              q3 \in { IVec(0, 0, 1), IVec(1, 1, 1), IVec(-1, 2, 0),
                       Vec(R(1, 2), I(-3), R(5, 2)) } }
    /\ volOrder = << 1, 2, 3 >>
    /\ volFirst = I(0)
    /\ volSecond = I(0)
    /\ volPc = "start"

VolumeFirst ==
    /\ volPc = "start"
    /\ volFirst' = computeTetrahedronVolume(volPoints)
    /\ volPc' = "first"
    /\ UNCHANGED << volPoints, volOrder, volSecond >>
    /\ UNCHANGED << meshVars, patVars, bfVars >>

VolumeSwapped ==
    /\ volPc = "first"
    /\ \E ord \in Swaps :
          /\ volOrder' = ord
          /\ volSecond' = computeTetrahedronVolume(Reordered(volPoints, ord))
    /\ volPc' = "second"
    /\ UNCHANGED << volPoints, volFirst >>
    /\ UNCHANGED << meshVars, patVars, bfVars >>

VolumeRotated ==
    /\ volPc = "first"
    /\ \E ord \in Rotations :
          /\ volOrder' = ord
          /\ volSecond' = computeTetrahedronVolume(Reordered(volPoints, ord))
    /\ volPc' = "second"
    /\ UNCHANGED << volPoints, volFirst >>
    /\ UNCHANGED << meshVars, patVars, bfVars >>

VolNext ==
    \/ VolumeFirst
    \/ VolumeSwapped
    \/ VolumeRotated

(***************************************************************************)
(* computeTetrahedronInertiaByBruteForce                                   *)
(*                                                                         *)
(* The source samples the bounding box 400 steps along its longest side;   *)
(* the model takes resolutionOfIntegration steps.  A face normal is kept   *)
(* at the length the cross product gives it: normalized() divides by a     *)
(* positive length, which changes the sign of no dot product here.         *)
(***************************************************************************)
\* stands for the source's 400
resolutionOfIntegration == 4

\* vertex n (0 .. 2) of face f (0 .. 3): the table `triangles`
FaceVertex(pts, f, n) == pts[TetrahedronTriangles[3 * f + n + 1]]

BfCenter(pts) == VScale(R(1, 4), VAdd(VAdd(pts[0], pts[1]), VAdd(pts[2], pts[3])))

\* normals[f], made to point away from the center
FaceNormal(pts, f) ==
    LET p0 == FaceVertex(pts, f, 0)
        p1 == FaceVertex(pts, f, 1)
        p2 == FaceVertex(pts, f, 2)
        normal == Cross(VSub(p1, p0), VSub(p2, p1))
    IN  IF RLt(Dot(normal, VSub(p0, BfCenter(pts))), I(0))
        THEN VScale(I(-1), normal)
        ELSE normal

\* pointsOnPlane[f]
PointOnPlane(pts, f) == FaceVertex(pts, f, 0)

\* compute bounds of integration
RECURSIVE BoxMaxUpTo(_, _, _)
BoxMaxUpTo(pts, j, n) ==
    IF n = 0 THEN pts[0][j]
    ELSE LET m == BoxMaxUpTo(pts, j, n - 1)
         IN  IF RGt(pts[n][j], m) THEN pts[n][j] ELSE m

RECURSIVE BoxMinUpTo(_, _, _)
BoxMinUpTo(pts, j, n) ==
    IF n = 0 THEN pts[0][j]
    ELSE LET m == BoxMinUpTo(pts, j, n - 1)
         IN  IF RLt(pts[n][j], m) THEN pts[n][j] ELSE m

BoxMax(pts) == [j \in Axes |-> BoxMaxUpTo(pts, j, 3)]

BoxMin(pts) == [j \in Axes |-> BoxMinUpTo(pts, j, 3)]

\* compute step size
MaxDimension(pts) ==
    LET diagonal == VSub(BoxMax(pts), BoxMin(pts))
        d01 == IF RGt(diagonal[1], diagonal[0]) THEN diagonal[1] ELSE diagonal[0]
    IN  IF RGt(diagonal[2], d01) THEN diagonal[2] ELSE d01

Delta(pts) == RDiv(MaxDimension(pts), I(resolutionOfIntegration))

DeltaVolume(pts) == Delta(pts) \otimes Delta(pts) \otimes Delta(pts)

\* the point is inside the shape if it is behind all face planes
IsInside(pt, pts) ==
    \A f \in 0 .. 3 :
        ~RGt(Dot(VSub(pt, PointOnPlane(pts, f)), FaceNormal(pts, f)), I(0))

\* the tetrahedra given to the function
BruteForceTetrahedra ==
    { \* a vertex at the origin, which is the minimum corner of the bounding box
      [k \in 0 .. 3 |-> << ZeroVec, IVec(1, 0, 0), IVec(0, 1, 0), IVec(0, 0, 1) >>[k + 1]],
      \* the origin strictly inside, one step from the minimum corner in each direction
      [k \in 0 .. 3 |-> << IVec(-1, -1, -1),
                           IVec(resolutionOfIntegration - 1, -1, -1),
                           IVec(-1, resolutionOfIntegration - 1, -1),
                           IVec(-1, -1, resolutionOfIntegration - 1) >>[k + 1]],
      \* away from the origin
      [k \in 0 .. 3 |-> TetrahedronPoints[k + 1]],
      \* away from the origin, the other orientation
      [k \in 0 .. 3 |-> << IVec(1, 1, 1), IVec(1, 2, 1), IVec(3, 1, 1), IVec(1, 1, 4) >>[k + 1]] }

BfIdle ==
    /\ bfPoints = << >> /\ bfInertia = ZeroMat /\ deltaInertia = ZeroMat
    /\ x = I(0) /\ y = I(0) /\ z = I(0) /\ p = ZeroVec /\ pointInside = FALSE
    /\ bfPc = "idle"

\* the state as the outermost loop is first tested
BfInit ==
    /\ bfPoints \in BruteForceTetrahedra
    /\ bfInertia = ZeroMat
    /\ deltaInertia \in IndeterminateMats
    /\ x = BoxMin(bfPoints)[0]
    /\ y = IndeterminateVec[1]
    /\ z = IndeterminateVec[2]
    /\ p = IndeterminateVec
    /\ pointInside = FALSE
    /\ bfPc = "x"

\* while (x < XX) {  y = boxMin[1];
EnterX ==
    /\ bfPc = "x"
    /\ RLt(x, BoxMax(bfPoints)[0])
    /\ y' = BoxMin(bfPoints)[1]
    /\ bfPc' = "y"
    /\ UNCHANGED << bfPoints, bfInertia, deltaInertia, x, z, p, pointInside >>
    /\ UNCHANGED << meshVars, patVars, volVars >>

\* the outermost loop ends, and the function returns
ExitX ==
    /\ bfPc = "x"
    /\ ~RLt(x, BoxMax(bfPoints)[0])
    /\ bfPc' = "done"
    /\ UNCHANGED << bfPoints, bfInertia, deltaInertia, x, y, z, p, pointInside >>
    /\ UNCHANGED << meshVars, patVars, volVars >>

\* while (y < YY) {  z = boxMin[2];
EnterY ==
    /\ bfPc = "y"
    /\ RLt(y, BoxMax(bfPoints)[1])
    /\ z' = BoxMin(bfPoints)[2]
    /\ bfPc' = "z"
    /\ UNCHANGED << bfPoints, bfInertia, deltaInertia, x, y, p, pointInside >>
    /\ UNCHANGED << meshVars, patVars, volVars >>

\* the loop over y ends:  x += delta;
ExitY ==
    /\ bfPc = "y"
    /\ ~RLt(y, BoxMax(bfPoints)[1])
    /\ x' = x \oplus Delta(bfPoints)
    /\ bfPc' = "x"
    /\ UNCHANGED << bfPoints, bfInertia, deltaInertia, y, z, p, pointInside >>
    /\ UNCHANGED << meshVars, patVars, volVars >>

\* the body of the innermost loop for a point inside the tetrahedron
SampleInside ==
    /\ bfPc = "z"
    /\ RLt(z, BoxMax(bfPoints)[2])
    /\ IsInside(Vec(x, y, z), bfPoints)
    /\ p' = Vec(x, y, z)
    /\ pointInside' = TRUE
    /\ deltaInertia' = computePointInertia(Vec(x, y, z), DeltaVolume(bfPoints), deltaInertia)
    /\ bfInertia' = MAdd(bfInertia,
                         computePointInertia(Vec(x, y, z), DeltaVolume(bfPoints), deltaInertia))
    /\ z' = z \oplus Delta(bfPoints)
    /\ UNCHANGED << bfPoints, x, y, bfPc >>
    /\ UNCHANGED << meshVars, patVars, volVars >>

\* the body of the innermost loop for a point outside
SampleOutside ==
    /\ bfPc = "z"
    /\ RLt(z, BoxMax(bfPoints)[2])
    /\ ~IsInside(Vec(x, y, z), bfPoints)
    /\ p' = Vec(x, y, z)
    /\ pointInside' = FALSE
    /\ z' = z \oplus Delta(bfPoints)
    /\ UNCHANGED << bfPoints, bfInertia, deltaInertia, x, y, bfPc >>
    /\ UNCHANGED << meshVars, patVars, volVars >>

\* the loop over z ends:  y += delta;
ExitZ ==
    /\ bfPc = "z"
    /\ ~RLt(z, BoxMax(bfPoints)[2])
    /\ y' = y \oplus Delta(bfPoints)
    /\ bfPc' = "y"
    /\ UNCHANGED << bfPoints, bfInertia, deltaInertia, x, z, p, pointInside >>
    /\ UNCHANGED << meshVars, patVars, volVars >>

BfNext ==
    \/ EnterX
    \/ ExitX
    \/ EnterY
    \/ ExitY
    \/ SampleInside
    \/ SampleOutside
    \/ ExitZ

(***************************************************************************)
(* Specifications: one per caller                                          *)
(***************************************************************************)
Init == MeshInit /\ PatIdle /\ VolIdle /\ BfIdle

Spec == Init /\ [][MeshNext]_vars

InitParallelAxis == PatInit /\ MeshIdle /\ VolIdle /\ BfIdle

SpecParallelAxis == InitParallelAxis /\ [][PatNext]_vars

InitVolume == VolInit /\ MeshIdle /\ PatIdle /\ BfIdle

SpecVolume == InitVolume /\ [][VolNext]_vars

InitBruteForce == BfInit /\ MeshIdle /\ PatIdle /\ VolIdle

SpecBruteForce == InitBruteForce /\ [][BfNext]_vars

(***************************************************************************)
(* Properties of computeMassProperties                                     *)
(***************************************************************************)
VecFinite(v) == \A k \in Axes : IsFinite(v[k])

MatFinite(m) == \A j \in Axes : VecFinite(m[j])

Symmetric(m) == \A j, k \in Axes : m[j][k] = m[k][j]

\* where the caller put the box for the call in progress
PlacedBoxMin == IF run = 2 THEN VAdd(mesh.boxMin, xform.d) ELSE mesh.boxMin

\* C1: for an axis-aligned box of 8 vertices and 12 outward-wound triangles,
\* wherever it lies, the call ends with volume = the product of the three
\* extents, centerOfMass = the center of the box and inertia =
\* computeBoxInertia(volume, extents); the unit cube centered at the origin
\* gives volume 1, centerOfMass (0,0,0) and inertia diag(1/6, 1/6, 1/6).
C1_BoxMassProperties ==
    (pc = "done" /\ mesh.shape = "box") =>
        /\ m_volume = mesh.extent[0] \otimes mesh.extent[1] \otimes mesh.extent[2]
        /\ m_centerOfMass = VAdd(PlacedBoxMin, VScale(R(1, 2), mesh.extent))
        /\ m_inertia = computeBoxInertia(m_volume, mesh.extent)
        /\ (mesh.extent = IVec(1, 1, 1) /\ PlacedBoxMin = Vec(R(-1, 2), R(-1, 2), R(-1, 2)))
              => /\ m_volume = I(1)
                 /\ m_centerOfMass = ZeroVec
                 /\ m_inertia = [j \in Axes |-> [k \in Axes |->
                                    IF j = k THEN R(1, 6) ELSE I(0)]]

\* a box that does not contain the origin has been measured
C1_Witness ==
    /\ pc = "done"
    /\ mesh.shape = "box"
    /\ run = 2
    /\ \E k \in Axes : RGt(PlacedBoxMin[k], I(0))
    /\ m_volume = I(6)

\* C2: for a closed outward-wound mesh, convex or not, the call on the mesh
\* translated by d gives the volume and the inertia of the call on the mesh
\* itself, and its centerOfMass plus d.
C2_TranslationInvariance ==
    (pc = "done" /\ run = 2 /\ mesh.closed /\ xform.kind = "translate") =>
        /\ m_volume = first.volume
        /\ m_inertia = first.inertia
        /\ m_centerOfMass = VAdd(first.centerOfMass, xform.d)

\* the solid that is not convex, moved, with a last tetrahedron of negative
\* signed volume
C2_Witness ==
    /\ pc = "done"
    /\ run = 2
    /\ mesh.shape = "dented"
    /\ xform.kind = "translate"
    /\ xform.d = IVec(-1, 1, -1)
    /\ RLt(volume, I(0))
    /\ m_volume = I(8)

\* C5: a call whose accumulated volume is zero does not end as a normal
\* return with an undefined (NaN or infinite) centerOfMass.
C5_NoSilentDegenerateResult ==
    ~(pc = "done" /\ m_volume = I(0) /\ ~VecFinite(m_centerOfMass))

\* C6: a call on an index list whose length is no multiple of 3 produces no
\* result.
C6_FailFastOnBadLength ==
    (Len(triangleIndices) % 3 /= 0) => pc /= "done"

\* C7: the result does not depend on the order of the triangles: the call
\* on the mesh with its index triples permuted leaves the same volume,
\* centerOfMass and inertia.  (Non-finite members are compared as values: two
\* calls that both leave NaN agree.)
C7_OrderIndependence ==
    (pc = "done" /\ run = 2 /\ xform.kind = "permute") =>
        /\ m_volume = first.volume
        /\ m_centerOfMass = first.centerOfMass
        /\ m_inertia = first.inertia

\* a permuted mesh of several triangles, measured, whose partial sums differ
\* from those of the first call
C7_Witness ==
    /\ pc = "done"
    /\ run = 2
    /\ xform.kind = "permute"
    /\ triangleIndices /= mesh.triangleIndices
    /\ mesh.shape = "dented"
    /\ m_volume = I(8)

\* C8: the inertia tensor is symmetric at every step: the tetrahedron's
\* tensor after computeTetrahedronInertia and after applyParallelAxisTheorem,
\* the accumulated m_inertia after every iteration and m_inertia after the
\* final applyInverseParallelAxisTheorem.  (Mirrored entries hold the same
\* value, which for a zero total volume may be the same NaN.)
C8_AlwaysSymmetric ==
    /\ Symmetric(m_inertia)
    /\ pc \in {"shift", "tally"} => Symmetric(tetraInertia)

\* a finished call whose tensor has off-diagonal entries
C8_Witness ==
    /\ pc = "done"
    /\ MatFinite(m_inertia)
    /\ m_inertia[0][1] /= I(0)
    /\ m_inertia[1][2] /= I(0)
    /\ tetraInertia[0][2] /= I(0)

\* C9: at every call of computeTetrahedronInertia the four points sum to the
\* zero vector, the center subtracted is a quarter of the sum of the
\* triangle's three vertices, and that center is the offset given to
\* applyParallelAxisTheorem.
C9_CenterOfMassFrame ==
    (pc \in {"inertia", "shift"}) =>
        /\ VAdd(VAdd(tetraPoints[0], tetraPoints[1]),
                VAdd(tetraPoints[2], tetraPoints[3])) = ZeroVec
        /\ VScale(I(4), center) =
              VAdd(VAdd(points[triangleIndices[3 * i + 1] + 1],
                        points[triangleIndices[3 * i + 2] + 1]),
                   points[triangleIndices[3 * i + 3] + 1])
        /\ \A k \in 0 .. 3 : VAdd(tetraPoints[k], center) =
              (IF k = 0 THEN ZeroVec ELSE points[triangleIndices[3 * i + k] + 1])

\* a tetrahedron whose center is off every axis plane is about to be measured
C9_Witness ==
    /\ pc = "inertia"
    /\ \A k \in Axes : center[k] /= I(0)
    /\ volume /= I(0)

(***************************************************************************)
(* Properties of the parallel axis shifts                                  *)
(***************************************************************************)
\* C3: applyParallelAxisTheorem(I, r, m) followed by
\* applyInverseParallelAxisTheorem(I, r, m) leaves all nine entries of I as
\* they were before the first call, for every tensor, every offset (the zero
\* vector included) and every positive mass.
C3_RoundTrip ==
    patPc = "restored" => patInertia = patBefore

\* a round trip over an offset off every axis plane, on a tensor the first
\* call changed in its off-diagonal entries
C3_Witness ==
    /\ patPc = "restored"
    /\ \A k \in Axes : patShift[k] /= I(0)
    /\ patBefore = GarbageMat
    /\ patInertia /= applyParallelAxisTheorem(patInertia, patShift, patMass)

(***************************************************************************)
(* Properties of computeTetrahedronVolume                                  *)
(***************************************************************************)
\* C4: with p0 fixed, swapping one pair among p1, p2, p3 negates the result
\* of computeTetrahedronVolume, and rotating them to (p2, p3, p1) or
\* (p3, p1, p2) leaves it the same.
C4_SwapNegatesRotationKeeps ==
    volPc = "second" =>
        /\ volOrder \in Swaps => volSecond = RNeg(volFirst)
        /\ volOrder \in Rotations => volSecond = volFirst

\* a tetrahedron of non-zero volume, apex off the origin, measured swapped
C4_Witness ==
    /\ volPc = "second"
    /\ volOrder \in Swaps
    /\ volPoints[0] /= ZeroVec
    /\ RGt(volFirst, I(0))
    /\ RLt(volSecond, I(0))

(***************************************************************************)
(* Properties of computeTetrahedronInertiaByBruteForce                     *)
(***************************************************************************)
\* the tensor of a point mass: mass * (|r|^2 E - r (x) r)
PointMassTensor(r, m) ==
    [j \in Axes |-> [k \in Axes |->
        IF j = k THEN m \otimes (Length2(r) \ominus r[j] \otimes r[j])
        ELSE RNeg(m \otimes r[j] \otimes r[k])]]

\* C10: what a sample point r inside the tetrahedron adds to the running
\* inertia is deltaVolume * (|r|^2 E - r (x) r), the zero tensor for a point
\* at the origin, whatever deltaInertia held before.
C10_SampleAddsPointTensor ==
    (bfPc = "z" /\ pointInside) =>
        deltaInertia = PointMassTensor(p, DeltaVolume(bfPoints))

====
